---- MODULE Spec2Model ----
(***************************************************************************)
(* A model of the opencode-websearch plugin: the provider directory scan   *)
(* (src/src/config.ts), the resolution policy and the plugin's hooks       *)
(* (src/src/index.ts), and the response processing of the two executors    *)
(* (src/src/providers).                                                    *)
(*                                                                         *)
(* Representation of JavaScript values                                     *)
(*   - a field typed `string | undefined` holds a TLA+ string, Undefined   *)
(*     standing for undefined; a `ProviderType | null` holds a string,     *)
(*     NoType standing for null;                                           *)
(*   - a field typed `unknown` (the option bags) holds a tagged record     *)
(*     [t |-> typeof, v |-> value], so that `typeof x === "string"` is a   *)
(*     test the model performs;                                            *)
(*   - a base URL is a sequence of one-character strings, so that the      *)
(*     regular expression of normalizeBaseURL is computed on characters;   *)
(*   - an object that may be null or undefined is a record, Null and       *)
(*     Missing standing for null and undefined;                            *)
(*   - a thrown exception is the value Thrown.                             *)
(***************************************************************************)
EXTENDS Integers, Sequences, FiniteSets, TLC

VARIABLES
    args,          \* pure-function specifications: the arguments drawn by Init
    ret,           \* pure-function specifications: the value returned
    started,       \* plugin: the plugin function has run (hooks are registered)
    directory,     \* host: what client.config.providers() answers now
    state,         \* plugin: `let state: ProviderState | null`
    activeModels,  \* plugin: `const activeModels = new Map<string, ActiveModel>()`
    calls,         \* plugin: the web-search execute invocations, each with its position
    queries        \* host: how many times client.config.providers() was called, and by whom

vars == <<args, ret, started, directory, state, activeModels, calls, queries>>

\* ── src/src/constants.ts ─────────────────────────────────────────────────

ANTHROPIC_NPM_PACKAGE == "@ai-sdk/anthropic"
OPENAI_NPM_PACKAGE == "@ai-sdk/openai"
WEBSEARCH_ALWAYS == "always"
WEBSEARCH_AUTO == "auto"

\* ── JavaScript values ────────────────────────────────────────────────────

Undefined == "<undefined>"
NoType == "<null>"
Null == [null |-> TRUE]
Missing == [undefined |-> TRUE]
Thrown == [thrown |-> "TypeError"]

JsUndefined == [t |-> "undefined"]
JsString(s) == [t |-> "string", v |-> s]
JsBoolean(b) == [t |-> "boolean", v |-> b]

\* !s for s : string | undefined
Falsy(s) == s = Undefined \/ s = ""

ProviderTypes == <<"anthropic", "openai">>
ProviderTypeSet == {ProviderTypes[i] : i \in DOMAIN ProviderTypes}

\* ── src/src/config.ts: helpers ───────────────────────────────────────────

isAnthropicProvider(model) == model.api.npm = ANTHROPIC_NPM_PACKAGE

isOpenAIProvider(model) == model.api.npm = OPENAI_NPM_PACKAGE

detectProviderType(model) ==
    IF isAnthropicProvider(model) THEN "anthropic"
    ELSE IF isOpenAIProvider(model) THEN "openai"
    ELSE NoType

\* The boolean true counts as "always"
getWebsearchOption_TrueIsAlways(model) ==
    LET value == model.options.websearch
    IN  IF value = JsBoolean(TRUE) THEN WEBSEARCH_ALWAYS
        ELSE IF value = JsString(WEBSEARCH_ALWAYS) \/ value = JsString(WEBSEARCH_AUTO)
        THEN value.v
        ELSE NoType

getWebsearchOption(model) ==
    LET value == model.options.websearch
    IN  IF value = JsString(WEBSEARCH_ALWAYS) \/ value = JsString(WEBSEARCH_AUTO)
        THEN value.v
        ELSE NoType

\* url ends with the characters of suffix
EndsWith(url, suffix) ==
    /\ Len(url) >= Len(suffix)
    /\ SubSeq(url, Len(url) - Len(suffix) + 1, Len(url)) = suffix

DropLast(url, n) == SubSeq(url, 1, Len(url) - n)

\* url.replace(/\/v1$/, ""): a trailing slash after the segment keeps it
normalizeBaseURL_NoTrailingSlash(url) ==
    IF EndsWith(url, <<"/", "v", "1">>) THEN DropLast(url, 3) ELSE url

\* url.replace(/\/v1\/?$/, ""): the one match, if any, is the suffix "/v1/" or "/v1"
normalizeBaseURL(url) ==
    IF EndsWith(url, <<"/", "v", "1", "/">>) THEN DropLast(url, 4)
    ELSE IF EndsWith(url, <<"/", "v", "1">>) THEN DropLast(url, 3)
    ELSE url

extractApiKey(options) ==
    IF options.apiKey.t # "string" THEN Undefined ELSE options.apiKey.v

extractBaseURL(options) ==
    IF options.baseURL.t # "string" THEN JsUndefined
    ELSE JsString(normalizeBaseURL(options.baseURL.v))

\* ── src/src/config.ts: config resolution ─────────────────────────────────

\* provider.key ?? extractApiKey(provider.options)
CredentialKey(provider) ==
    IF provider.key # Undefined THEN provider.key ELSE extractApiKey(provider.options)

\* A read of a field of provider.options, which is undefined, throws: the options
\* are read for the apiKey when the provider has no direct key, and for the
\* baseURL when a key was found.
extractCredentialsThrows(provider) ==
    /\ provider.options = Missing
    /\ \/ provider.key = Undefined
       \/ ~Falsy(provider.key)

extractCredentials(provider) ==
    LET apiKey == CredentialKey(provider)
    IN  IF Falsy(apiKey) THEN Null
        ELSE [apiKey |-> apiKey, baseURL |-> extractBaseURL(provider.options)]

EmptyScanResult == [credentials |-> Null, fallbackModel |-> Undefined, lockedModel |-> Undefined]

EmptyScanState == [pt \in ProviderTypeSet |-> EmptyScanResult]

\* The credentials of every later provider of the family overwrite the earlier ones
processProviderModel_LastWins(provider, model, scan) ==
    IF model.api = Missing THEN Thrown
    ELSE
    LET pt == detectProviderType(model)
    IN  IF pt = NoType THEN scan
        ELSE IF extractCredentialsThrows(provider) THEN Thrown
        ELSE IF model.options = Missing THEN Thrown
        ELSE
        LET credentials == IF extractCredentials(provider) # Null
                           THEN extractCredentials(provider)
                           ELSE scan[pt].credentials
            option == getWebsearchOption(model)
            lockedModel == IF option = WEBSEARCH_ALWAYS /\ Falsy(scan[pt].lockedModel)
                           THEN model.id
                           ELSE scan[pt].lockedModel
            fallbackModel == IF option = WEBSEARCH_AUTO /\ Falsy(scan[pt].fallbackModel)
                             THEN model.id
                             ELSE scan[pt].fallbackModel
        IN  [scan EXCEPT ![pt] = [credentials |-> credentials,
                                  fallbackModel |-> fallbackModel,
                                  lockedModel |-> lockedModel]]

\* The accumulator after one model, or Thrown
\* A provider named after a family makes its models models of that family
processProviderModel_FamilyByProviderID(provider, model, scan) ==
    IF model.api = Missing THEN Thrown
    ELSE
    LET pt == IF provider.id \in ProviderTypeSet THEN provider.id
              ELSE detectProviderType(model)
    IN  IF pt = NoType THEN scan
        ELSE IF scan[pt].credentials = Null /\ extractCredentialsThrows(provider) THEN Thrown
        ELSE IF model.options = Missing THEN Thrown
        ELSE
        LET credentials == IF scan[pt].credentials = Null
                           THEN extractCredentials(provider)
                           ELSE scan[pt].credentials
            option == getWebsearchOption(model)
            lockedModel == IF option = WEBSEARCH_ALWAYS /\ Falsy(scan[pt].lockedModel)
                           THEN model.id
                           ELSE scan[pt].lockedModel
            fallbackModel == IF option = WEBSEARCH_AUTO /\ Falsy(scan[pt].fallbackModel)
                             THEN model.id
                             ELSE scan[pt].fallbackModel
        IN  [scan EXCEPT ![pt] = [credentials |-> credentials,
                                  fallbackModel |-> fallbackModel,
                                  lockedModel |-> lockedModel]]

\* Every tagged model of the family overwrites the model recorded for its tag
processProviderModel_LaterTagOverwrites(provider, model, scan) ==
    IF model.api = Missing THEN Thrown
    ELSE
    LET pt == detectProviderType(model)
    IN  IF pt = NoType THEN scan
        ELSE IF scan[pt].credentials = Null /\ extractCredentialsThrows(provider) THEN Thrown
        ELSE IF model.options = Missing THEN Thrown
        ELSE
        LET credentials == IF scan[pt].credentials = Null
                           THEN extractCredentials(provider)
                           ELSE scan[pt].credentials
            option == getWebsearchOption(model)
            lockedModel == IF option = WEBSEARCH_ALWAYS
                           THEN model.id
                           ELSE scan[pt].lockedModel
            fallbackModel == IF option = WEBSEARCH_AUTO
                             THEN model.id
                             ELSE scan[pt].fallbackModel
        IN  [scan EXCEPT ![pt] = [credentials |-> credentials,
                                  fallbackModel |-> fallbackModel,
                                  lockedModel |-> lockedModel]]

processProviderModel(provider, model, scan) ==
    IF model.api = Missing THEN Thrown
    ELSE
    LET pt == detectProviderType(model)
    IN  IF pt = NoType THEN scan
        ELSE IF scan[pt].credentials = Null /\ extractCredentialsThrows(provider) THEN Thrown
        ELSE IF model.options = Missing THEN Thrown
        ELSE
        LET credentials == IF scan[pt].credentials = Null
                           THEN extractCredentials(provider)
                           ELSE scan[pt].credentials
            option == getWebsearchOption(model)
            lockedModel == IF option = WEBSEARCH_ALWAYS /\ Falsy(scan[pt].lockedModel)
                           THEN model.id
                           ELSE scan[pt].lockedModel
            fallbackModel == IF option = WEBSEARCH_AUTO /\ Falsy(scan[pt].fallbackModel)
                             THEN model.id
                             ELSE scan[pt].fallbackModel
        IN  [scan EXCEPT ![pt] = [credentials |-> credentials,
                                  fallbackModel |-> fallbackModel,
                                  lockedModel |-> lockedModel]]

\* for (const model of Object.values(provider.models)), from the i-th model on
RECURSIVE scanModelsFrom(_, _, _)
scanModelsFrom(provider, i, scan) ==
    IF scan = Thrown \/ i > Len(provider.models) THEN scan
    ELSE scanModelsFrom(provider, i + 1,
                        processProviderModel(provider, provider.models[i], scan))

scanProviderModels(provider, scan) == scanModelsFrom(provider, 1, scan)

\* A tagged family gets an entry even without credentials
buildResolution_TaggedWithoutCredentials(scan, pt) ==
    IF scan.credentials = Null /\ Falsy(scan.lockedModel) /\ Falsy(scan.fallbackModel) THEN Null
    ELSE [credentials |-> scan.credentials,
          fallbackModel |-> scan.fallbackModel,
          lockedModel |-> scan.lockedModel,
          providerType |-> pt]

buildResolution(scan, pt) ==
    IF scan.credentials = Null THEN Null
    ELSE [credentials |-> scan.credentials,
          fallbackModel |-> scan.fallbackModel,
          lockedModel |-> scan.lockedModel,
          providerType |-> pt]

\* for (const provider of providers), from the i-th provider on
RECURSIVE scanProvidersFrom(_, _, _)
scanProvidersFrom(providers, i, scan) ==
    IF scan = Thrown \/ i > Len(providers) THEN scan
    ELSE scanProvidersFrom(providers, i + 1, scanProviderModels(providers[i], scan))

\* The ProviderResolutionMap: a function from the families that have an entry
resolveFromProviders(providers) ==
    LET scan == scanProvidersFrom(providers, 1, EmptyScanState)
    IN  IF scan = Thrown THEN Thrown
        ELSE LET present == {pt \in ProviderTypeSet : buildResolution(scan[pt], pt) # Null}
             IN  [pt \in present |-> buildResolution(scan[pt], pt)]

\* ── src/src/index.ts: provider detection ─────────────────────────────────

\* The models of the providers in iteration order: provider order, then model order
RECURSIVE ModelsInOrder(_)
ModelsInOrder(providers) ==
    IF providers = <<>> THEN <<>>
    ELSE Head(providers).models \o ModelsInOrder(Tail(providers))

\* for (const model of Object.values(provider.models)), from the j-th model on
RECURSIVE detectInModels(_, _, _)
detectInModels(models, j, modelID) ==
    IF j > Len(models) THEN NoType
    ELSE IF models[j].id # modelID THEN detectInModels(models, j + 1, modelID)
    ELSE IF models[j].api.npm = ANTHROPIC_NPM_PACKAGE THEN "anthropic"
    ELSE IF models[j].api.npm = OPENAI_NPM_PACKAGE THEN "openai"
    ELSE detectInModels(models, j + 1, modelID)

\* for (const provider of providers), from the i-th provider on
RECURSIVE detectInProviders(_, _, _)
detectInProviders(providers, i, modelID) ==
    IF i > Len(providers) THEN NoType
    ELSE LET found == detectInModels(providers[i].models, 1, modelID)
         IN  IF found # NoType THEN found
             ELSE detectInProviders(providers, i + 1, modelID)

\* The first model at all with the active model's id decides, supported or not
detectActiveProviderType_FirstIDMatch(active, providers) ==
    IF active = Missing THEN NoType
    ELSE
    LET models == ModelsInOrder(providers)
        hits == {i \in DOMAIN models : models[i].id = active.modelID}
    IN  IF hits = {} THEN NoType
        ELSE detectProviderType(models[CHOOSE i \in hits : \A j \in hits : i <= j])

detectActiveProviderType(active, providers) ==
    IF active = Missing THEN NoType
    ELSE detectInProviders(providers, 1, active.modelID)

\* ── src/src/index.ts: model resolution ───────────────────────────────────

\* The API key is left out of the config
buildSearchConfig_NoKey(resolution, modelID) ==
    [apiKey |-> "",
     baseURL |-> resolution.credentials.baseURL,
     model |-> modelID]

buildSearchConfig(resolution, modelID) ==
    [apiKey |-> resolution.credentials.apiKey,
     baseURL |-> resolution.credentials.baseURL,
     model |-> modelID]

\* resolutions[pt]?.lockedModel is truthy
HasLockedModel(resolutions, pt) ==
    pt \in DOMAIN resolutions /\ ~Falsy(resolutions[pt].lockedModel)

\* resolutions[pt]?.fallbackModel is truthy
HasFallbackModel(resolutions, pt) ==
    pt \in DOMAIN resolutions /\ ~Falsy(resolutions[pt].fallbackModel)

resolveLockedModel_OpenAIFirst(resolutions) ==
    IF HasLockedModel(resolutions, "openai")
    THEN [config |-> buildSearchConfig(resolutions["openai"], resolutions["openai"].lockedModel),
          providerType |-> "openai"]
    ELSE IF HasLockedModel(resolutions, "anthropic")
    THEN [config |-> buildSearchConfig(resolutions["anthropic"],
                                       resolutions["anthropic"].lockedModel),
          providerType |-> "anthropic"]
    ELSE Null

resolveLockedModel(resolutions) ==
    IF HasLockedModel(resolutions, "anthropic")
    THEN [config |-> buildSearchConfig(resolutions["anthropic"],
                                       resolutions["anthropic"].lockedModel),
          providerType |-> "anthropic"]
    ELSE IF HasLockedModel(resolutions, "openai")
    THEN [config |-> buildSearchConfig(resolutions["openai"], resolutions["openai"].lockedModel),
          providerType |-> "openai"]
    ELSE Null

\* A passthrough that trusts the family and takes whatever credentials exist
resolveActiveModel_AnyCredentials(activeType, active, resolutions) ==
    IF DOMAIN resolutions = {} THEN Null
    ELSE LET pt == IF activeType \in DOMAIN resolutions THEN activeType
                   ELSE CHOOSE other \in DOMAIN resolutions : TRUE
         IN  [config |-> buildSearchConfig(resolutions[pt], active.modelID),
              providerType |-> activeType]

resolveActiveModel(activeType, active, resolutions) ==
    IF activeType \notin DOMAIN resolutions THEN Null
    ELSE [config |-> buildSearchConfig(resolutions[activeType], active.modelID),
          providerType |-> activeType]

resolveFallbackModel_OpenAIFirst(resolutions) ==
    IF HasFallbackModel(resolutions, "openai")
    THEN [config |-> buildSearchConfig(resolutions["openai"],
                                       resolutions["openai"].fallbackModel),
          providerType |-> "openai"]
    ELSE IF HasFallbackModel(resolutions, "anthropic")
    THEN [config |-> buildSearchConfig(resolutions["anthropic"],
                                       resolutions["anthropic"].fallbackModel),
          providerType |-> "anthropic"]
    ELSE Null

resolveFallbackModel(resolutions) ==
    IF HasFallbackModel(resolutions, "anthropic")
    THEN [config |-> buildSearchConfig(resolutions["anthropic"],
                                       resolutions["anthropic"].fallbackModel),
          providerType |-> "anthropic"]
    ELSE IF HasFallbackModel(resolutions, "openai")
    THEN [config |-> buildSearchConfig(resolutions["openai"],
                                       resolutions["openai"].fallbackModel),
          providerType |-> "openai"]
    ELSE Null

\* The active model before the locked model
resolveSearchProvider_ActiveFirst(resolutions, active, activeType) ==
    LET resolved == IF activeType # NoType /\ active # Missing
                    THEN resolveActiveModel(activeType, active, resolutions)
                    ELSE Null
        locked == resolveLockedModel(resolutions)
    IN  IF resolved # Null THEN resolved
        ELSE IF locked # Null THEN locked
        ELSE resolveFallbackModel(resolutions)

\* The fallback model before the active model
resolveSearchProvider_FallbackFirst(resolutions, active, activeType) ==
    LET locked == resolveLockedModel(resolutions)
        fallback == resolveFallbackModel(resolutions)
    IN  IF locked # Null THEN locked
        ELSE IF fallback # Null THEN fallback
        ELSE IF activeType # NoType /\ active # Missing
        THEN resolveActiveModel(activeType, active, resolutions)
        ELSE Null

resolveSearchProvider(resolutions, active, activeType) ==
    LET locked == resolveLockedModel(resolutions)
        resolved == IF activeType # NoType /\ active # Missing
                    THEN resolveActiveModel(activeType, active, resolutions)
                    ELSE Null
    IN  IF locked # Null THEN locked
        ELSE IF resolved # Null THEN resolved
        ELSE resolveFallbackModel(resolutions)

hasAnyProvider(resolutions) ==
    "anthropic" \in DOMAIN resolutions \/ "openai" \in DOMAIN resolutions

\* ── Pure functions applied to drawn arguments ────────────────────────────

NotCalled == [pending |-> TRUE]

\* The plugin before its function has run
PluginIdle ==
    /\ started = FALSE
    /\ directory = <<>>
    /\ state = Null
    /\ activeModels = <<>>
    /\ calls = <<>>
    /\ queries = <<>>

pluginVars == <<started, directory, state, activeModels, calls, queries>>

ModelIDs == {"", "m1", "m2"}
OptionalModelIDs == ModelIDs \cup {Undefined}
ApiKeys == {"k1", "k2"}
NormalizedBaseURLs == {JsUndefined, JsString(<<"h">>)}

\* ProviderResolution values (src/src/types.ts)
ProviderResolutions ==
    [credentials : [apiKey : ApiKeys, baseURL : NormalizedBaseURLs],
     fallbackModel : OptionalModelIDs,
     lockedModel : OptionalModelIDs,
     providerType : ProviderTypeSet]

\* ProviderResolutionMap values: each entry filed under its own family
ResolutionMaps ==
    UNION {{m \in [present -> ProviderResolutions] : \A pt \in present : m[pt].providerType = pt} :
           present \in SUBSET ProviderTypeSet}

\* ActiveModel | undefined
ActiveModels == {Missing} \cup [modelID : {"", "m1", "m3"}, providerID : {"p1"}]

ResolveArgs ==
    [resolutions : ResolutionMaps,
     active : ActiveModels,
     activeType : ProviderTypeSet \cup {NoType}]

InitResolve ==
    /\ args \in ResolveArgs
    /\ ret = NotCalled
    /\ PluginIdle

ApplyResolve ==
    /\ ret = NotCalled
    /\ ret' = resolveSearchProvider(args.resolutions, args.active, args.activeType)
    /\ UNCHANGED <<args, pluginVars>>

NextResolve == ApplyResolve

SpecResolve == InitResolve /\ [][NextResolve]_vars

\* ── Resolution policy: what the claims speak of ──────────────────────────

\* The families of the map whose lockedModel (fallbackModel) names a model
LockedFamilies(resolutions) ==
    {pt \in DOMAIN resolutions : resolutions[pt].lockedModel \notin {Undefined, ""}}

FallbackFamilies(resolutions) ==
    {pt \in DOMAIN resolutions : resolutions[pt].fallbackModel \notin {Undefined, ""}}

\* The first of the families in the fixed order anthropic, openai
FirstFamily(families) ==
    ProviderTypes[CHOOSE i \in DOMAIN ProviderTypes :
                     /\ ProviderTypes[i] \in families
                     /\ \A j \in DOMAIN ProviderTypes : ProviderTypes[j] \in families => i <= j]

\* {family, model, that family's credentials}
Triple(resolutions, pt, modelID) ==
    [config |-> [apiKey |-> resolutions[pt].credentials.apiKey,
                 baseURL |-> resolutions[pt].credentials.baseURL,
                 model |-> modelID],
     providerType |-> pt]

PassthroughApplies(resolutions, active, activeType) ==
    active # Missing /\ activeType \in DOMAIN resolutions

PriorityOrder(resolutions, active, activeType) ==
    LET locked == LockedFamilies(resolutions)
        fallback == FallbackFamilies(resolutions)
    IN  IF locked # {}
        THEN Triple(resolutions, FirstFamily(locked), resolutions[FirstFamily(locked)].lockedModel)
        ELSE IF PassthroughApplies(resolutions, active, activeType)
        THEN Triple(resolutions, activeType, active.modelID)
        ELSE IF fallback # {}
        THEN Triple(resolutions, FirstFamily(fallback),
                    resolutions[FirstFamily(fallback)].fallbackModel)
        ELSE Null

Resolved == ret # NotCalled

\* C1: resolveSearchProvider returns the first applicable of: the lockedModel of
\* the first family (anthropic, then openai) that has one; the active model id
\* with the credentials of the active model's family, if that family is in the
\* map; the fallbackModel of the first family that has one; null.
C1_PriorityOrder ==
    Resolved => ret = PriorityOrder(args.resolutions, args.active, args.activeType)

\* Both families are locked with different models and the active model's family
\* is in the map: the anthropic lock is returned.
C1_Witness ==
    /\ Resolved
    /\ LockedFamilies(args.resolutions) = ProviderTypeSet
    /\ args.resolutions["anthropic"].lockedModel # args.resolutions["openai"].lockedModel
    /\ PassthroughApplies(args.resolutions, args.active, args.activeType)
    /\ ret.providerType = "anthropic"

\* C2: whenever some family of the map has a lockedModel, the resolved provider
\* is a locked family with its lockedModel and its credentials, whatever the
\* active model and the fallback models are.
C2_LockedPrecedence ==
    (Resolved /\ LockedFamilies(args.resolutions) # {}) =>
        /\ ret # Null
        /\ ret.providerType \in LockedFamilies(args.resolutions)
        /\ ret = Triple(args.resolutions, ret.providerType,
                        args.resolutions[ret.providerType].lockedModel)

\* A family is locked while the active model belongs to the other family, which
\* is in the map with credentials and even has a fallback model.
C2_Witness ==
    /\ Resolved
    /\ LockedFamilies(args.resolutions) # {}
    /\ args.active # Missing
    /\ args.activeType \in DOMAIN args.resolutions
    /\ args.activeType \notin LockedFamilies(args.resolutions)
    /\ args.activeType \in FallbackFamilies(args.resolutions)
    /\ ret.providerType # args.activeType
    /\ ret.config.model # args.active.modelID

\* The active model's family is recognized and has no entry in the map
ActiveFamilyAbsent ==
    /\ args.active # Missing
    /\ args.activeType \in ProviderTypeSet
    /\ args.activeType \notin DOMAIN args.resolutions

\* C3 as stated: when the active model's family is recognized but has no entry
\* in the map, resolution returns a fallback model of another family or null.
C3_FallbackOrNull ==
    (Resolved /\ ActiveFamilyAbsent) =>
        \/ ret = Null
        \/ /\ ret.providerType # args.activeType
           /\ ret.providerType \in FallbackFamilies(args.resolutions)
           /\ ret = Triple(args.resolutions, ret.providerType,
                           args.resolutions[ret.providerType].fallbackModel)

\* C3 as amended: when the active model's family is recognized but has no entry
\* in the map, resolution never passes the active model through: it returns the
\* locked model of another family if there is one, otherwise a fallback model
\* of another family, otherwise null.
C3_NoPassthroughWithoutEntry ==
    (Resolved /\ ActiveFamilyAbsent) =>
        \/ /\ ret = Null
           /\ LockedFamilies(args.resolutions) = {}
           /\ FallbackFamilies(args.resolutions) = {}
        \/ /\ ret # Null
           /\ ret.providerType # args.activeType
           /\ ret.providerType \in DOMAIN args.resolutions
           /\ IF LockedFamilies(args.resolutions) # {}
              THEN ret = Triple(args.resolutions, ret.providerType,
                                args.resolutions[ret.providerType].lockedModel)
              ELSE /\ ret.providerType \in FallbackFamilies(args.resolutions)
                   /\ ret = Triple(args.resolutions, ret.providerType,
                                   args.resolutions[ret.providerType].fallbackModel)

\* The active family is absent, the other family has credentials and a fallback
\* model other than the active model, and that fallback is returned.
C3_Witness ==
    /\ Resolved
    /\ ActiveFamilyAbsent
    /\ DOMAIN args.resolutions # {}
    /\ LockedFamilies(args.resolutions) = {}
    /\ ret # Null
    /\ ret.config.model # args.active.modelID

\* C4: when no family has a lockedModel and the active model's family has an
\* entry in the map, the resolved provider is that family, the active model id
\* and that family's credentials, tags or no tags.
C4_Passthrough ==
    (/\ Resolved
     /\ LockedFamilies(args.resolutions) = {}
     /\ PassthroughApplies(args.resolutions, args.active, args.activeType)) =>
        ret = Triple(args.resolutions, args.activeType, args.active.modelID)

\* Passthrough with no tag anywhere in the map, both families present
C4_Witness ==
    /\ Resolved
    /\ DOMAIN args.resolutions = ProviderTypeSet
    /\ \A pt \in ProviderTypeSet :
          /\ args.resolutions[pt].lockedModel = Undefined
          /\ args.resolutions[pt].fallbackModel = Undefined
    /\ args.active # Missing
    /\ args.activeType = "openai"
    /\ ret.providerType = "openai"
    /\ ret.config.model = args.active.modelID
    /\ ret.config.apiKey # args.resolutions["anthropic"].credentials.apiKey

\* C5: a fallback model is selected only when no family has a lockedModel and
\* passthrough does not apply; then the first family (anthropic, then openai)
\* that has a fallbackModel is used with its own credentials (null if none has),
\* and otherwise the result is a locked model or the active model.
C5_FallbackLast ==
    Resolved =>
        IF /\ LockedFamilies(args.resolutions) = {}
           /\ ~PassthroughApplies(args.resolutions, args.active, args.activeType)
        THEN IF FallbackFamilies(args.resolutions) = {}
             THEN ret = Null
             ELSE ret = Triple(args.resolutions, FirstFamily(FallbackFamilies(args.resolutions)),
                               args.resolutions[FirstFamily(FallbackFamilies(args.resolutions))]
                                   .fallbackModel)
        ELSE /\ ret # Null
             /\ \/ /\ ret.providerType \in LockedFamilies(args.resolutions)
                   /\ ret.config.model = args.resolutions[ret.providerType].lockedModel
                \/ /\ LockedFamilies(args.resolutions) = {}
                   /\ ret.providerType = args.activeType
                   /\ ret.config.model = args.active.modelID

\* Both families have different fallback models, the active family is
\* unrecognized, and the anthropic fallback is returned.
C5_Witness ==
    /\ Resolved
    /\ LockedFamilies(args.resolutions) = {}
    /\ FallbackFamilies(args.resolutions) = ProviderTypeSet
    /\ args.resolutions["anthropic"].fallbackModel # args.resolutions["openai"].fallbackModel
    /\ args.active # Missing
    /\ args.activeType = NoType
    /\ ret = Triple(args.resolutions, "anthropic", args.resolutions["anthropic"].fallbackModel)

\* ── The provider directory scan on drawn provider lists ──────────────────

\* The most models a drawn provider list holds, all providers together
MaxModels == 3

\* What a model is: its API shape and its websearch option. A model of an
\* unrecognized API shape is skipped before its options are read.
ModelShapes ==
    [npm : {ANTHROPIC_NPM_PACKAGE, OPENAI_NPM_PACKAGE},
     websearch : {JsString(WEBSEARCH_ALWAYS), JsString(WEBSEARCH_AUTO), JsUndefined}]
    \cup [npm : {"@ai-sdk/google"}, websearch : {JsUndefined}]

\* Where a provider's API key is: nowhere, in its direct key field, or in its
\* options, there with a base URL that ends in a version segment.
ProviderShapes == {"none", "key", "options"}

\* Ids, keys and hosts by position, so that the entries of a list are told apart
ModelIDAt == <<"m1", "m2", "m3", "m4", "m5">>
KeyAt == <<"key1", "key2", "key3", "key4", "key5">>
OptionKeyAt == <<"opt1", "opt2", "opt3", "opt4", "opt5">>
HostAt == <<"a", "b", "c", "d", "e">>

ModelOf(shape, n) ==
    [api |-> [npm |-> shape.npm],
     id |-> ModelIDAt[n],
     options |-> [websearch |-> shape.websearch]]

ProviderOf(shape, i, models) ==
    [id |-> "provider",
     key |-> IF shape = "key" THEN KeyAt[i] ELSE Undefined,
     models |-> models,
     options |-> IF shape = "options"
                 THEN [apiKey |-> JsString(OptionKeyAt[i]),
                       baseURL |-> JsString(<<HostAt[i], "/", "v", "1">>)]
                 ELSE [apiKey |-> JsUndefined, baseURL |-> JsUndefined]]

\* The provider list of the models mshape[1..n], owner[k] being the provider of
\* the k-th model and pshape[i] the shape of the i-th provider
ProviderListOf(mshape, owner, pshape) ==
    [i \in DOMAIN pshape |->
        LET owned == {k \in DOMAIN mshape : owner[k] = i}
            before == Cardinality({k \in DOMAIN mshape : owner[k] < i})
        IN  ProviderOf(pshape[i], i,
                       [j \in 1..Cardinality(owned) |-> ModelOf(mshape[before + j], before + j)])]

\* Each provider holds at least one model, and the models of a provider follow
\* one another
Owners(n) ==
    {owner \in [1..n -> 1..n] :
        /\ n > 0 => owner[1] = 1
        /\ \A k \in 2..n : owner[k] \in {owner[k - 1], owner[k - 1] + 1}}

InitScan ==
    /\ \E n \in 0..MaxModels :
          \E mshape \in [1..n -> ModelShapes], owner \in Owners(n) :
              \E pshape \in [1..(IF n = 0 THEN 0 ELSE owner[n]) -> ProviderShapes] :
                  args = [providers |-> ProviderListOf(mshape, owner, pshape)]
    /\ ret = NotCalled
    /\ PluginIdle

ApplyScan ==
    /\ ret = NotCalled
    /\ ret' = resolveFromProviders(args.providers)
    /\ UNCHANGED <<args, pluginVars>>

NextScan == ApplyScan

SpecScan == InitScan /\ [][NextScan]_vars

\* ── Provider directory scan: what the claims speak of ────────────────────

Scanned == ret # NotCalled /\ ret # Thrown

NpmOf(pt) == IF pt = "anthropic" THEN ANTHROPIC_NPM_PACKAGE ELSE OPENAI_NPM_PACKAGE

\* The provider has a model of the family
OfFamily(provider, pt) ==
    \E j \in DOMAIN provider.models : provider.models[j].api.npm = NpmOf(pt)

HasTaggedModel(provider, pt) ==
    \E j \in DOMAIN provider.models :
        /\ provider.models[j].api.npm = NpmOf(pt)
        /\ provider.models[j].options.websearch \in
               {JsString(WEBSEARCH_ALWAYS), JsString(WEBSEARCH_AUTO)}

\* The providers of the family that yield credentials, by position
Credentialed(providers, pt) ==
    {i \in DOMAIN providers :
        OfFamily(providers[i], pt) /\ extractCredentials(providers[i]) # Null}

\* C6: the ResolutionMap returned by resolveFromProviders has an entry for a
\* family if and only if at least one provider of that family yielded
\* extractable credentials.
C6_EntryIffCredentials ==
    Scanned =>
        \A pt \in ProviderTypeSet :
            pt \in DOMAIN ret <=> Credentialed(args.providers, pt) # {}

\* A family has a tagged model and no credentials and gets no entry, while the
\* other family has credentials and gets one.
C6_Witness ==
    /\ Scanned
    /\ \E pt \in ProviderTypeSet :
          /\ \E i \in DOMAIN args.providers : HasTaggedModel(args.providers[i], pt)
          /\ Credentialed(args.providers, pt) = {}
          /\ pt \notin DOMAIN ret
          /\ DOMAIN ret = ProviderTypeSet \ {pt}

FirstOf(positions) == CHOOSE i \in positions : \A j \in positions : i <= j

\* C7: a family's resolution has the credentials (API key and base URL) of the
\* first provider of the family, in list order, that carries credentials.
C7_FirstCredentialsWin ==
    Scanned =>
        \A pt \in DOMAIN ret :
            /\ Credentialed(args.providers, pt) # {}
            /\ ret[pt].credentials =
                   extractCredentials(args.providers[FirstOf(Credentialed(args.providers, pt))])

\* Three providers of one family carry credentials; the first one's are used.
C7_Witness ==
    /\ Scanned
    /\ \E pt \in DOMAIN ret :
          /\ Cardinality(Credentialed(args.providers, pt)) >= 3
          /\ \A i \in Credentialed(args.providers, pt) :
                i # 1 => extractCredentials(args.providers[i]) # ret[pt].credentials
          /\ ret[pt].credentials = extractCredentials(args.providers[1])

\* ── src/src/config.ts, src/src/providers: the strings returned ───────────

\* A string is the sequence of its parts
formatNoProviderError ==
    <<"Error: web-search requires an Anthropic or OpenAI provider.",
      "No supported provider with a valid API key was found in your opencode.json configuration.",
      "To fix this, add an Anthropic or OpenAI provider to your opencode.json:",
      "{\"provider\":{\"anthropic\":{\"options\":{\"apiKey\":\"{env:ANTHROPIC_API_KEY}\"}}}}",
      "Or:",
      "{\"provider\":{\"openai\":{\"options\":{\"apiKey\":\"{env:OPENAI_API_KEY}\"}}}}",
      "Steps: ...">>

formatUnsupportedProviderError(activeModelID) ==
    <<"Error: your current model (", activeModelID, ") does not support web search.",
      "Web search requires an Anthropic or OpenAI model. ...">>

\* String(value), for a thrown value that is not an Error
String(value) ==
    IF value.t = "string" THEN value.v
    ELSE IF value.t = "boolean" THEN (IF value.v THEN "true" ELSE "false")
    ELSE value.t

\* error: an APIError with message and status, an Error with its message, or
\* another thrown value
formatAnthropicError(error) ==
    IF error.class = "APIError"
    THEN <<"Anthropic API error: ", error.message, " (status: ", error.status, ")">>
    ELSE IF error.class = "Error"
    THEN <<"Error performing web search: ", error.message>>
    ELSE <<"Error performing web search: ", String(error.value)>>

formatOpenAIError(error) ==
    IF error.class = "APIError"
    THEN <<"OpenAI API error: ", error.message, " (status: ", error.status, ")">>
    ELSE IF error.class = "Error"
    THEN <<"Error performing web search: ", error.message>>
    ELSE <<"Error performing web search: ", String(error.value)>>

\* The error is formatted by the anthropic formatter whatever the family
dispatchErrorMessage_AlwaysAnthropic(providerType, error) ==
    formatAnthropicError(error)

dispatchErrorMessage(providerType, error) ==
    IF providerType = "anthropic" THEN formatAnthropicError(error) ELSE formatOpenAIError(error)

\* ── src/src/index.ts: the plugin ─────────────────────────────────────────

\* The most web-search invocations of a run
MaxCalls == 2

Sessions == {"s1", "s2"}

\* What a chat.message event carries as its model, if any
ChatModels == {Missing} \cup [modelID : {"m1", "m2"}, providerID : {"p1"}]

Untagged(npm) == [npm |-> npm, websearch |-> JsUndefined]
Tagged(npm, tag) == [npm |-> npm, websearch |-> JsString(tag)]

\* The provider lists the host's directory holds in a run
Directories ==
    { \* an anthropic provider with a key and the untagged model m1
      <<ProviderOf("key", 1, <<ModelOf(Untagged(ANTHROPIC_NPM_PACKAGE), 1)>>)>>,
      \* an anthropic provider with a key and the untagged model m1, an openai one
      \* with its key in its options and the "auto" model m2
      <<ProviderOf("key", 1, <<ModelOf(Untagged(ANTHROPIC_NPM_PACKAGE), 1)>>),
        ProviderOf("options", 2, <<ModelOf(Tagged(OPENAI_NPM_PACKAGE, WEBSEARCH_AUTO), 2)>>)>>,
      \* a model that lacks its api record
      <<ProviderOf("key", 1, <<[api |-> Missing, id |-> "m1",
                                options |-> [websearch |-> JsUndefined]]>>)>> }

\* What client.config.providers() does: it resolves with data, resolves without
\* data, or rejects
Answers ==
    {[kind |-> "reject"], [kind |-> "nodata"]}
    \cup {[kind |-> "data", providers |-> list] : list \in Directories}

\* What the upstream call of a search does: it resolves, or it throws
UpstreamOutcomes ==
    {[class |-> "response"],
     [class |-> "APIError", message |-> "overloaded", status |-> "529"]}

\* The executor dispatchSearch calls with the resolved config and the query
dispatchSearch(resolved) ==
    IF resolved.providerType = "anthropic" THEN "executeAnthropicSearch"
    ELSE "executeOpenAISearch"

\* The ProviderState, or Thrown when the query rejects or the scan throws
resolveProviderState(answer) ==
    IF answer.kind = "reject" THEN Thrown
    ELSE IF answer.kind = "nodata" THEN [list |-> <<>>, resolutions |-> <<>>]
    ELSE LET resolutions == resolveFromProviders(answer.providers)
         IN  IF resolutions = Thrown THEN Thrown
             ELSE [list |-> answer.providers, resolutions |-> resolutions]

\* The resolution is tested before the ResolutionMap is
ContinueExecute_UnsupportedFirst(sessionID, st) ==
    LET active == IF sessionID \in DOMAIN activeModels THEN activeModels[sessionID] ELSE Missing
        activeType == detectActiveProviderType(active, st.list)
        resolved == resolveSearchProvider(st.resolutions, active, activeType)
    IN  IF resolved = Null
        THEN [sessionID |-> sessionID, pc |-> "returned", resolved |-> Null,
              upstream |-> <<>>,
              result |-> formatUnsupportedProviderError(
                             IF active = Missing THEN "unknown" ELSE active.modelID)]
        ELSE [sessionID |-> sessionID, pc |-> "awaitSearch", resolved |-> resolved,
              upstream |-> <<dispatchSearch(resolved)>>, result |-> <<>>]

\* execute from `if (!hasAnyProvider(state.resolutions))` to its return or to
\* the await of dispatchSearch, run against the ProviderState st
ContinueExecute(sessionID, st) ==
    LET active == IF sessionID \in DOMAIN activeModels THEN activeModels[sessionID] ELSE Missing
        activeType == detectActiveProviderType(active, st.list)
        resolved == resolveSearchProvider(st.resolutions, active, activeType)
    IN  IF ~hasAnyProvider(st.resolutions)
        THEN [sessionID |-> sessionID, pc |-> "returned", resolved |-> Null,
              upstream |-> <<>>, result |-> formatNoProviderError]
        ELSE IF resolved = Null
        THEN [sessionID |-> sessionID, pc |-> "returned", resolved |-> Null,
              upstream |-> <<>>,
              result |-> formatUnsupportedProviderError(
                             IF active = Missing THEN "unknown" ELSE active.modelID)]
        ELSE [sessionID |-> sessionID, pc |-> "awaitSearch", resolved |-> resolved,
              upstream |-> <<dispatchSearch(resolved)>>, result |-> <<>>]

Init ==
    /\ args = <<>>
    /\ ret = NotCalled
    /\ started = FALSE
    /\ directory \in Answers
    /\ state = Null
    /\ activeModels = <<>>
    /\ calls = <<>>
    /\ queries = <<>>

\* The plugin function queries the directory before it returns its hooks
PluginStart_EagerQuery ==
    /\ ~started
    /\ started' = TRUE
    /\ queries' = Append(queries, [by |-> "startup"])
    /\ state' = IF resolveProviderState(directory) = Thrown THEN Null
                ELSE resolveProviderState(directory)
    /\ activeModels' = <<>>
    /\ UNCHANGED <<args, ret, directory, calls>>

\* export default (async (input) => { ... }): the hooks are returned
PluginStart ==
    /\ ~started
    /\ started' = TRUE
    /\ state' = Null
    /\ activeModels' = <<>>
    /\ UNCHANGED <<args, ret, directory, calls, queries>>

\* The host's configuration changes
HostReconfigure ==
    /\ directory' \in Answers \ {directory}
    /\ UNCHANGED <<args, ret, started, state, activeModels, calls, queries>>

\* A message with a model sets the entry of every session that has one
ChatMessage_EverySession(sessionID, model) ==
    /\ started
    /\ activeModels' =
          IF model # Missing
          THEN [s \in DOMAIN activeModels \cup {sessionID} |->
                   [modelID |-> model.modelID, providerID |-> model.providerID]]
          ELSE activeModels
    /\ UNCHANGED <<args, ret, started, directory, state, calls, queries>>

\* "chat.message": async (hookInput) => { ... }
ChatMessage(sessionID, model) ==
    /\ started
    /\ activeModels' =
          IF model # Missing
          THEN [s \in DOMAIN activeModels \cup {sessionID} |->
                   IF s = sessionID
                   THEN [modelID |-> model.modelID, providerID |-> model.providerID]
                   ELSE activeModels[s]]
          ELSE activeModels
    /\ UNCHANGED <<args, ret, started, directory, state, calls, queries>>

\* execute from its start: to the await of resolveProviderState when there is
\* no state yet, else on to its return or to the await of dispatchSearch
ExecuteStart(sessionID) ==
    /\ started
    /\ Len(calls) < MaxCalls
    /\ IF state = Null
       THEN /\ queries' = Append(queries, [by |-> "execute", call |-> Len(calls) + 1])
            /\ calls' = Append(calls, [sessionID |-> sessionID, pc |-> "awaitProviders",
                                       resolved |-> Null, upstream |-> <<>>,
                                       result |-> <<>>])
       ELSE /\ calls' = Append(calls, ContinueExecute(sessionID, state))
            /\ UNCHANGED queries
    /\ UNCHANGED <<args, ret, started, directory, state, activeModels>>

\* client.config.providers() settles: resolveProviderState runs to its end, and
\* execute goes on from `state = ...` to its return or to the await of
\* dispatchSearch, or rejects
ProvidersAnswered(c) ==
    /\ calls[c].pc = "awaitProviders"
    /\ LET st == resolveProviderState(directory)
       IN  IF st = Thrown
           THEN /\ calls' = [calls EXCEPT ![c].pc = "rejected"]
                /\ UNCHANGED state
           ELSE /\ state' = st
                /\ calls' = [calls EXCEPT ![c] = ContinueExecute(calls[c].sessionID, st)]
    /\ UNCHANGED <<args, ret, started, directory, activeModels, queries>>

\* An upstream call that throws is followed by a call of the other family's
\* executor
SearchAnswered_RetryOtherFamily(c, outcome) ==
    /\ calls[c].pc = "awaitSearch"
    /\ calls' = [calls EXCEPT
                    ![c].pc = IF outcome.class = "response" \/ Len(calls[c].upstream) > 1
                              THEN "returned" ELSE "awaitSearch",
                    ![c].upstream =
                        IF outcome.class = "response" \/ Len(calls[c].upstream) > 1
                        THEN calls[c].upstream
                        ELSE Append(calls[c].upstream,
                                    IF calls[c].resolved.providerType = "anthropic"
                                    THEN "executeOpenAISearch"
                                    ELSE "executeAnthropicSearch"),
                    ![c].result =
                        IF outcome.class = "response"
                        THEN <<"{\"query\":", "...", "}">>
                        ELSE dispatchErrorMessage(calls[c].resolved.providerType, outcome)]
    /\ UNCHANGED <<args, ret, started, directory, state, activeModels, queries>>

\* The catch block formats the error for the family of the session's model as
\* it is when the upstream call settles
SearchAnswered_FamilyAtFailure(c, outcome) ==
    /\ calls[c].pc = "awaitSearch"
    /\ LET again == ContinueExecute(calls[c].sessionID, state).resolved
           providerType == IF again = Null THEN calls[c].resolved.providerType
                           ELSE again.providerType
       IN  calls' = [calls EXCEPT
                        ![c].pc = "returned",
                        ![c].result =
                            IF outcome.class = "response"
                            THEN <<"{\"query\":", "...", "}">>
                            ELSE dispatchErrorMessage(providerType, outcome)]
    /\ UNCHANGED <<args, ret, started, directory, state, activeModels, queries>>

\* The upstream call settles: the try block returns the response as a string,
\* or the catch block returns the formatted error
SearchAnswered(c, outcome) ==
    /\ calls[c].pc = "awaitSearch"
    /\ calls' = [calls EXCEPT
                    ![c].pc = "returned",
                    ![c].result =
                        IF outcome.class = "response"
                        THEN <<"{\"query\":", "...", "}">>
                        ELSE dispatchErrorMessage(calls[c].resolved.providerType, outcome)]
    /\ UNCHANGED <<args, ret, started, directory, state, activeModels, queries>>

Next ==
    \/ PluginStart
    \/ HostReconfigure
    \/ \E sessionID \in Sessions, model \in ChatModels : ChatMessage(sessionID, model)
    \/ \E sessionID \in Sessions : ExecuteStart(sessionID)
    \/ \E c \in DOMAIN calls : ProvidersAnswered(c)
    \/ \E c \in DOMAIN calls, outcome \in UpstreamOutcomes : SearchAnswered(c, outcome)

Spec == Init /\ [][Next]_vars

\* ── The plugin: what the claims speak of ─────────────────────────────────

\* C8: every invocation of the web-search tool's execute ends by returning a
\* string, on every path, and never throws or rejects.
C8_NeverRejects ==
    \A c \in DOMAIN calls : calls[c].pc # "rejected"

\* C9: under any interleaving of web-search invocations on one plugin instance,
\* the provider directory is queried, and the ResolutionMap computed, at most
\* once.
C9_QueriedAtMostOnce ==
    Len(queries) <= 1

C11_CachedStateKept ==
    [][state # Null => state' = state /\ queries' = queries]_vars

\* ── The plugin under one request with documented arguments ───────────────

JsArray(items) == [t |-> "array", items |-> items]

\* What a request may carry as allowed_domains or blocked_domains
DomainFilters == {JsUndefined, JsArray(<<>>), JsArray(<<"example.com">>)}

\* The arguments of a web-search request as the README documents them
RequestArgs ==
    [query : {"tla", "tlc"}, allowed_domains : DomainFilters,
     blocked_domains : DomainFilters]

InitRequest ==
    /\ args \in RequestArgs
    /\ ret = NotCalled
    /\ started = FALSE
    /\ directory \in Answers
    /\ state = Null
    /\ activeModels = <<>>
    /\ calls = <<>>
    /\ queries = <<>>

\* The host sends the request: execute(args, context) reads args.query only
ExecuteRequest(sessionID) ==
    /\ calls = <<>>
    /\ ExecuteStart(sessionID)

NextRequest ==
    \/ PluginStart
    \/ HostReconfigure
    \/ \E sessionID \in Sessions, model \in ChatModels : ChatMessage(sessionID, model)
    \/ \E sessionID \in Sessions : ExecuteRequest(sessionID)
    \/ \E c \in DOMAIN calls : ProvidersAnswered(c)
    \/ \E c \in DOMAIN calls, outcome \in UpstreamOutcomes : SearchAnswered(c, outcome)

SpecRequest == InitRequest /\ [][NextRequest]_vars

BothFiltersSet ==
    /\ args.allowed_domains # JsUndefined
    /\ args.blocked_domains # JsUndefined

\* C12: a request that sets both allowed_domains and blocked_domains is
\* answered with a plain-text error string and no upstream call is made for it.
C12_FilterConflictRejected ==
    BothFiltersSet =>
        \A c \in DOMAIN calls :
            /\ calls[c].upstream = <<>>
            /\ calls[c].pc = "returned" => calls[c].resolved = Null

\* ── normalizeBaseURL on its own ──────────────────────────────────────────

\* The longest base URL drawn, in characters
MaxURLLen == 7

\* The characters of the drawn URLs: "h" stands for a character that is
\* neither part of "/v1" nor a slash
URLChars == {"h", "/", "v", "1"}

InitNormalize ==
    /\ \E n \in 0..MaxURLLen : \E url \in [1..n -> URLChars] : args = [url |-> url]
    /\ ret = NotCalled
    /\ PluginIdle

ApplyNormalize ==
    /\ ret = NotCalled
    /\ ret' = [value |-> normalizeBaseURL(args.url)]
    /\ UNCHANGED <<args, pluginVars>>

NextNormalize == ApplyNormalize

SpecNormalize == InitNormalize /\ [][NextNormalize]_vars

V1 == <<"/", "v", "1">>

V1Slash == <<"/", "v", "1", "/">>

\* C13: normalizeBaseURL removes exactly one trailing "/v1" or "/v1/" and
\* nothing else: "h/v1", "h/v1/" and "h" all become "h", a URL that ends in
\* neither is returned unchanged, and of two trailing version segments only the
\* last is removed.
C13_NormalizeBaseURL ==
    ret # NotCalled =>
        LET url == args.url
            out == ret.value
        IN  /\ \E suffix \in {<<>>, V1, V1Slash} : url = out \o suffix
            /\ out = url <=> ~EndsWith(url, V1) /\ ~EndsWith(url, V1Slash)
            /\ url \in {<<"h">> \o V1, <<"h">> \o V1Slash, <<"h">>} => out = <<"h">>
            /\ url = <<"h">> \o V1 \o V1 => out = <<"h">> \o V1

\* The URL "h/v1/v1" has been normalized to "h/v1".
C13_Witness ==
    /\ ret # NotCalled
    /\ args.url = <<"h">> \o V1 \o V1
    /\ ret.value = <<"h">> \o V1

\* ── src/src/providers/anthropic.ts: response processing ──────────────────

EMPTY_LENGTH == 0

RECURSIVE trimStart(_)
trimStart(text) ==
    IF text # <<>> /\ Head(text) = " " THEN trimStart(Tail(text)) ELSE text

RECURSIVE trimEnd(_)
trimEnd(text) ==
    IF text # <<>> /\ text[Len(text)] = " " THEN trimEnd(SubSeq(text, 1, Len(text) - 1))
    ELSE text

\* String.prototype.trim, on a text of one-character strings
trim(text) == trimEnd(trimStart(text))

\* A result block that holds an error contributes nothing
processBlock_ErrorDropped(block) ==
    IF block.type = "text" /\ Len(trim(block.text)) > EMPTY_LENGTH
    THEN JsString(trim(block.text))
    ELSE IF block.type = "web_search_tool_result" /\ block.content.t = "array"
    THEN JsArray([i \in DOMAIN block.content.items |->
                     [title |-> block.content.items[i].title,
                      url |-> block.content.items[i].url]])
    ELSE Null

\* A text segment, a hit list, or Null for a block that contributes nothing
processBlock(block) ==
    IF block.type = "text" /\ Len(trim(block.text)) > EMPTY_LENGTH
    THEN JsString(trim(block.text))
    ELSE IF block.type = "web_search_tool_result"
    THEN IF block.content.t # "array"
         THEN JsString(<<"Web search error: ", block.content.error_code>>)
         ELSE JsArray([i \in DOMAIN block.content.items |->
                          [title |-> block.content.items[i].title,
                           url |-> block.content.items[i].url]])
    ELSE Null

RECURSIVE processBlocksFrom(_, _, _)
processBlocksFrom(content, i, results) ==
    IF i > Len(content) THEN results
    ELSE LET result == processBlock(content[i])
         IN  processBlocksFrom(content, i + 1,
                               IF result # Null THEN Append(results, result) ELSE results)

processResponseBlocks(query, content) ==
    [query |-> query, results |-> processBlocksFrom(content, 1, <<>>)]

\* ── src/src/providers/openai.ts: response processing ─────────────────────

\* Every url_citation is pushed, whether its URL was seen or not
extractCitation_KeepDuplicates(annotation, acc) ==
    IF annotation.type # "url_citation" THEN acc
    ELSE [seen |-> acc.seen \cup {annotation.url},
          hits |-> Append(acc.hits, [title |-> annotation.title, url |-> annotation.url])]

\* The body of extractCitations' loop, on the pair acc of seen and hits
extractCitation(annotation, acc) ==
    IF annotation.type # "url_citation" THEN acc
    ELSE IF annotation.url \notin acc.seen
    THEN [seen |-> acc.seen \cup {annotation.url},
          hits |-> Append(acc.hits, [title |-> annotation.title, url |-> annotation.url])]
    ELSE acc

RECURSIVE extractCitationsFrom(_, _, _)
extractCitationsFrom(annotations, i, acc) ==
    IF i > Len(annotations) THEN acc
    ELSE extractCitationsFrom(annotations, i + 1, extractCitation(annotations[i], acc))

extractCitations(annotations, acc) == extractCitationsFrom(annotations, 1, acc)

RECURSIVE collectFromParts(_, _, _)
collectFromParts(content, j, acc) ==
    IF j > Len(content) THEN acc
    ELSE LET part == content[j]
         IN  collectFromParts(content, j + 1,
                 IF part.type = "output_text" /\ Len(part.annotations) > EMPTY_LENGTH
                 THEN extractCitations(part.annotations, acc)
                 ELSE acc)

RECURSIVE collectFromItems(_, _, _)
collectFromItems(items, i, acc) ==
    IF i > Len(items) THEN acc
    ELSE collectFromItems(items, i + 1,
             IF items[i].type # "message" THEN acc
             ELSE collectFromParts(items[i].content, 1, acc))

collectCitations(items) ==
    collectFromItems(items, 1, [seen |-> {}, hits |-> <<>>]).hits

\* The citations are pushed before the output text
buildStructuredResponse_HitsFirst(query, outputText, items) ==
    LET citations == collectCitations(items)
        text == IF Len(outputText) > EMPTY_LENGTH THEN <<JsString(outputText)>> ELSE <<>>
        hits == IF Len(citations) > EMPTY_LENGTH THEN <<JsArray(citations)>> ELSE <<>>
    IN  [query |-> query, results |-> hits \o text]

buildStructuredResponse(query, outputText, items) ==
    LET citations == collectCitations(items)
        text == IF Len(outputText) > EMPTY_LENGTH THEN <<JsString(outputText)>> ELSE <<>>
        hits == IF Len(citations) > EMPTY_LENGTH THEN <<JsArray(citations)>> ELSE <<>>
    IN  [query |-> query, results |-> text \o hits]

\* ── The response processors on their own ─────────────────────────────────

\* The most content blocks of a drawn Anthropic response
MaxBlocks == 3

\* The most output items of a drawn OpenAI response
MaxItems == 2

WebSearchResult(title, url) ==
    [type |-> "web_search_result", title |-> title, url |-> url, page_age |-> "today"]

WebSearchResults ==
    { <<>>,
      <<WebSearchResult("t1", "u1")>>,
      <<WebSearchResult("t2", "u1"), WebSearchResult("t1", "u2")>>,
      <<WebSearchResult("t1", "u1"), WebSearchResult("t2", "u1")>> }

WebSearchError ==
    [t |-> "object", type |-> "web_search_tool_result_error",
     error_code |-> "max_uses_exceeded"]

ContentBlocks ==
    {[type |-> "text", text |-> text] : text \in {<<" ">>, <<" ", "a", " ">>, <<"b">>}}
    \cup {[type |-> "web_search_tool_result", content |-> JsArray(list)] :
             list \in WebSearchResults}
    \cup {[type |-> "web_search_tool_result", content |-> WebSearchError],
          [type |-> "server_tool_use", name |-> "web_search"]}

URLCitation(title, url) ==
    [type |-> "url_citation", title |-> title, url |-> url, start_index |-> 0]

FileCitation == [type |-> "file_citation", file_id |-> "f1"]

AnnotationLists ==
    { <<>>,
      <<URLCitation("t1", "u1")>>,
      <<URLCitation("t2", "u1"), URLCitation("t1", "u2")>>,
      <<FileCitation, URLCitation("t1", "u1"), URLCitation("t2", "u1")>> }

\* An annotation cites a span of its part's text, so an annotated part has text
MessageParts ==
    {[type |-> "output_text", text |-> <<"a">>, annotations |-> list] :
        list \in AnnotationLists}
    \cup {[type |-> "output_text", text |-> <<>>, annotations |-> <<>>],
          [type |-> "refusal", refusal |-> "no"]}

MessageContents ==
    {<<>>} \cup {<<p>> : p \in MessageParts}
           \cup {<<p, q>> : p \in MessageParts, q \in MessageParts}

OutputItems ==
    {[type |-> "message", content |-> content] : content \in MessageContents}
    \cup {[type |-> "web_search_call", status |-> "completed"]}

RECURSIVE Flatten(_)
Flatten(lists) ==
    IF lists = <<>> THEN <<>> ELSE Head(lists) \o Flatten(Tail(lists))

\* response.output_text: the text of every output_text part of every message,
\* joined in order
OutputTextOf(items) ==
    LET messages == SelectSeq(items, LAMBDA item : item.type = "message")
        parts == SelectSeq(Flatten([i \in DOMAIN messages |-> messages[i].content]),
                           LAMBDA part : part.type = "output_text")
    IN  Flatten([i \in DOMAIN parts |-> parts[i].text])

InitResponse ==
    /\ \/ \E n \in 0..MaxBlocks : \E content \in [1..n -> ContentBlocks] :
             args = [family |-> "anthropic", query |-> "tla", content |-> content]
       \/ \E n \in 0..MaxItems : \E items \in [1..n -> OutputItems] :
             args = [family |-> "openai", query |-> "tla",
                     outputText |-> OutputTextOf(items), items |-> items]
    /\ ret = NotCalled
    /\ PluginIdle

ApplyResponse ==
    /\ ret = NotCalled
    /\ ret' = IF args.family = "anthropic"
              THEN processResponseBlocks(args.query, args.content)
              ELSE buildStructuredResponse(args.query, args.outputText, args.items)
    /\ UNCHANGED <<args, pluginVars>>

NextResponse == ApplyResponse

SpecResponse == InitResponse /\ [][NextResponse]_vars

IsArray(v) == v.t = "array"

IsURLCitation(a) == a.type = "url_citation"

IsResultBlock(b) == b.type = "web_search_tool_result" /\ IsArray(b.content)

TitleAndURL(list) == [i \in DOMAIN list |-> [title |-> list[i].title, url |-> list[i].url]]

\* The hits of the raw response in the order they appear in it
RawHits ==
    IF args.family = "anthropic"
    THEN LET blocks == SelectSeq(args.content, IsResultBlock)
         IN  Flatten([i \in DOMAIN blocks |-> TitleAndURL(blocks[i].content.items)])
    ELSE LET messages == SelectSeq(args.items, LAMBDA item : item.type = "message")
             parts == SelectSeq(Flatten([i \in DOMAIN messages |-> messages[i].content]),
                                LAMBDA part : part.type = "output_text")
         IN  TitleAndURL(SelectSeq(Flatten([i \in DOMAIN parts |-> parts[i].annotations]),
                                   IsURLCitation))

\* The hits of the normalized response in the order they appear in it
ResponseHits ==
    LET lists == SelectSeq(ret.results, IsArray)
    IN  Flatten([i \in DOMAIN lists |-> lists[i].items])

NoURLTwice(hits) ==
    \A i, j \in DOMAIN hits : hits[i].url = hits[j].url => i = j

FirstSeenTitles(hits) ==
    /\ {hits[i].url : i \in DOMAIN hits} = {RawHits[k].url : k \in DOMAIN RawHits}
    /\ \A i \in DOMAIN hits :
          \E k \in DOMAIN RawHits :
              /\ RawHits[k] = hits[i]
              /\ \A earlier \in 1..(k - 1) : RawHits[earlier].url # hits[i].url

Resolves(c) ==
    /\ c \in DOMAIN calls'
    /\ c \notin DOMAIN calls \/ calls[c].pc = "awaitProviders"
    /\ calls'[c].pc \in {"returned", "awaitSearch"}

ActiveModelOf(sessionID) ==
    IF sessionID \in DOMAIN activeModels THEN activeModels[sessionID] ELSE Missing

\* C15: when the ResolutionMap is empty the call returns the no-provider error,
\* which names the missing provider or API key and shows example configuration,
\* and makes no upstream call; when the map is not empty but the resolution is
\* null the call returns the unsupported-model error, which names the session's
\* active model id, or "unknown" when the session has none.
C15_ResolutionErrors ==
    [][\A c \in DOMAIN calls' :
          Resolves(c) =>
              LET active == ActiveModelOf(calls'[c].sessionID)
                  map == state'.resolutions
                  resolution ==
                      resolveSearchProvider(map, active,
                                            detectActiveProviderType(active, state'.list))
              IN  /\ DOMAIN map = {} =>
                        /\ calls'[c].pc = "returned"
                        /\ calls'[c].upstream = <<>>
                        /\ calls'[c].result = formatNoProviderError
                        /\ calls'[c].result[2] =
                              "No supported provider with a valid API key was found in your opencode.json configuration."
                  /\ DOMAIN map # {} /\ resolution = Null =>
                        /\ calls'[c].pc = "returned"
                        /\ calls'[c].result =
                              formatUnsupportedProviderError(
                                  IF active = Missing THEN "unknown" ELSE active.modelID)
                        /\ calls'[c].result[2] \in {"unknown", "m1", "m2"}
                  /\ DOMAIN map # {} /\ resolution # Null =>
                        calls'[c].pc = "awaitSearch"]_vars

\* One call has returned the no-provider error and another the
\* unsupported-model error that names its session's active model m2.
C15_Witness ==
    \E c1, c2 \in DOMAIN calls :
        /\ calls[c1].pc = "returned"
        /\ calls[c1].result = formatNoProviderError
        /\ calls[c2].pc = "returned"
        /\ calls[c2].result = formatUnsupportedProviderError("m2")

\* C16: a chat.message with a model overwrites only its own session's entry,
\* with that model's {modelID, providerID}, and leaves every other session's
\* entry as it was; nothing else changes the table, neither a chat.message
\* without a model nor an execute call; and execute reads for its session the
\* entry as it stands, or undefined when the session has none.
C16_TrackerFrame ==
    [][/\ activeModels' # activeModels =>
             \E sessionID \in Sessions, model \in ChatModels \ {Missing} :
                 /\ DOMAIN activeModels' = DOMAIN activeModels \cup {sessionID}
                 /\ activeModels'[sessionID] =
                       [modelID |-> model.modelID, providerID |-> model.providerID]
                 /\ \A other \in DOMAIN activeModels \ {sessionID} :
                       activeModels'[other] = activeModels[other]
                 /\ UNCHANGED <<started, directory, state, calls, queries>>
       /\ calls' # calls => activeModels' = activeModels
       /\ \A c \in DOMAIN calls' :
             Resolves(c) =>
                 LET active == ActiveModelOf(calls'[c].sessionID)
                 IN  calls'[c].resolved =
                         resolveSearchProvider(
                             state'.resolutions, active,
                             detectActiveProviderType(active, state'.list))]_vars

\* Session s1 has the model m2 and session s2 the model m1, and a call of
\* session s2 is awaiting its search with the passthrough of m1.
C16_Witness ==
    /\ DOMAIN activeModels = Sessions
    /\ activeModels["s1"].modelID = "m2"
    /\ activeModels["s2"].modelID = "m1"
    /\ \E c \in DOMAIN calls :
          /\ calls[c].sessionID = "s2"
          /\ calls[c].pc = "awaitSearch"
          /\ calls[c].resolved.config.model = "m1"

ExecutorOf(providerType) ==
    IF providerType = "anthropic" THEN "executeAnthropicSearch" ELSE "executeOpenAISearch"

\* C17: an invocation makes at most one upstream call, and that one to the
\* executor of the family it resolved to: a call that awaits its search or has
\* returned its outcome, response or error, has made exactly that one call, and
\* a call that returned without a resolution has made none.
C17_AtMostOneUpstreamCall ==
    \A c \in DOMAIN calls :
        /\ Len(calls[c].upstream) <= 1
        /\ calls[c].upstream # <<>> =>
              /\ calls[c].resolved # Null
              /\ calls[c].upstream = <<ExecutorOf(calls[c].resolved.providerType)>>
        /\ calls[c].resolved # Null => Len(calls[c].upstream) = 1

\* A call that resolved to the openai family has returned the error of its
\* upstream call, and the executor of the anthropic family was not called.
C17_Witness ==
    \E c \in DOMAIN calls :
        /\ calls[c].pc = "returned"
        /\ calls[c].resolved # Null
        /\ calls[c].resolved.providerType = "openai"
        /\ calls[c].result = formatOpenAIError(
                                 [class |-> "APIError", message |-> "overloaded",
                                  status |-> "529"])
        /\ calls[c].upstream = <<"executeOpenAISearch">>

\* ── Provider directory scan of malformed entries ─────────────────────────

\* Models as the host's types promise them, and models that lack their api
\* record or their options bag
ScannedModels ==
    {[api |-> [npm |-> shape.npm], options |-> [websearch |-> shape.websearch]] :
        shape \in {Tagged(ANTHROPIC_NPM_PACKAGE, WEBSEARCH_ALWAYS),
                   Tagged(OPENAI_NPM_PACKAGE, WEBSEARCH_AUTO),
                   Untagged(ANTHROPIC_NPM_PACKAGE),
                   Untagged("@ai-sdk/google")}}
    \cup {[api |-> Missing, options |-> [websearch |-> JsString(WEBSEARCH_ALWAYS)]],
          [api |-> [npm |-> ANTHROPIC_NPM_PACKAGE], options |-> Missing],
          [api |-> [npm |-> "@ai-sdk/google"], options |-> Missing]}

WithID(model, n) ==
    [api |-> model.api, id |-> ModelIDAt[n], options |-> model.options]

InitMalformed ==
    /\ \E pshape \in ProviderShapes :
          \/ args = [providers |-> <<ProviderOf(pshape, 1, <<>>)>>]
          \/ \E a \in ScannedModels :
                args = [providers |-> <<ProviderOf(pshape, 1, <<WithID(a, 1)>>)>>]
          \/ \E a, b \in ScannedModels :
                args = [providers |->
                           <<ProviderOf(pshape, 1, <<WithID(a, 1), WithID(b, 2)>>)>>]
    /\ ret = NotCalled
    /\ PluginIdle

SpecMalformed == InitMalformed /\ [][NextScan]_vars

Malformed(model) == model.api = Missing \/ model.options = Missing

WithoutMalformed(providers) ==
    [i \in DOMAIN providers |->
        [providers[i] EXCEPT
            !.models = SelectSeq(providers[i].models, LAMBDA model : ~Malformed(model))]]

\* C18: the scan never throws on a malformed entry: a model that lacks its api
\* record or its options bag is skipped, and resolveFromProviders returns the
\* ResolutionMap of the remaining models.
C18_MalformedSkipped ==
    ret # NotCalled =>
        /\ ret # Thrown
        /\ ret = resolveFromProviders(WithoutMalformed(args.providers))

\* ── Provider directory scan: the tags ────────────────────────────────────

\* The ids of the family's models tagged tag, in provider order then model order
TaggedIDs(providers, pt, tag) ==
    Flatten([i \in DOMAIN providers |->
                LET tagged == SelectSeq(providers[i].models,
                                        LAMBDA model :
                                            /\ model.api.npm = NpmOf(pt)
                                            /\ model.options.websearch = JsString(tag))
                IN  [j \in DOMAIN tagged |-> tagged[j].id]])

FirstOrUndefined(ids) == IF ids = <<>> THEN Undefined ELSE Head(ids)

\* C19: a family's lockedModel is the id of the first model of the family that
\* is tagged "always" and its fallbackModel the id of the first that is tagged
\* "auto", in provider order then model order; a later tagged model never
\* replaces it, and neither depends on the other tag.
C19_FirstTaggedWins ==
    Scanned =>
        \A pt \in DOMAIN ret :
            /\ ret[pt].lockedModel =
                   FirstOrUndefined(TaggedIDs(args.providers, pt, WEBSEARCH_ALWAYS))
            /\ ret[pt].fallbackModel =
                   FirstOrUndefined(TaggedIDs(args.providers, pt, WEBSEARCH_AUTO))

\* A family has two models tagged "always" in two providers and, before them, a
\* model tagged "auto": the first "always" model is locked, the "auto" model is
\* the fallback.
C19_Witness ==
    /\ Scanned
    /\ Len(args.providers) >= 2
    /\ \E pt \in DOMAIN ret :
          LET always == TaggedIDs(args.providers, pt, WEBSEARCH_ALWAYS)
              auto == TaggedIDs(args.providers, pt, WEBSEARCH_AUTO)
          IN  /\ always = <<"m2", "m3">>
              /\ auto = <<"m1">>
              /\ ret[pt].lockedModel = "m2"
              /\ ret[pt].fallbackModel = "m1"

\* ── extractCredentials on its own ────────────────────────────────────────

\* provider.key: absent, empty, or a key
DirectKeys == {Undefined, "", "key1", "key2"}

\* provider.options.apiKey: absent, not a string, empty, or a key
OptionApiKeys ==
    {JsUndefined, JsBoolean(TRUE), JsString(""), JsString("opt1"), JsString("opt2")}

\* provider.options.baseURL: absent, not a string, or a URL with or without a
\* trailing version segment
OptionBaseURLs ==
    {JsUndefined, JsBoolean(TRUE), JsString(<<"h">>), JsString(<<"h", "/", "v", "1">>)}

InitCredentials ==
    /\ \E key \in DirectKeys, apiKey \in OptionApiKeys, baseURL \in OptionBaseURLs :
          args = [provider |-> [id |-> "provider", key |-> key, models |-> <<>>,
                                options |-> [apiKey |-> apiKey, baseURL |-> baseURL]]]
    /\ ret = NotCalled
    /\ PluginIdle

ApplyCredentials ==
    /\ ret = NotCalled
    /\ ret' = extractCredentials(args.provider)
    /\ UNCHANGED <<args, pluginVars>>

NextCredentials == ApplyCredentials

SpecCredentials == InitCredentials /\ [][NextCredentials]_vars

UsableKey(provider) == provider.key # Undefined /\ provider.key # ""

UsableOptionKey(provider) ==
    /\ provider.options.apiKey.t = "string"
    /\ provider.options.apiKey.v # ""

\* C20: a provider yields credentials whenever it has a usable direct key or,
\* failing that, a usable apiKey string in its options; the direct key is the
\* one used when both are usable; a provider with neither yields none.
C20_CredentialExtraction ==
    ret # NotCalled =>
        LET provider == args.provider
        IN  /\ UsableKey(provider) => ret # Null /\ ret.apiKey = provider.key
            /\ ~UsableKey(provider) /\ UsableOptionKey(provider) =>
                  ret # Null /\ ret.apiKey = provider.options.apiKey.v
            /\ ~UsableKey(provider) /\ ~UsableOptionKey(provider) => ret = Null

\* ── Provider directory scan: provider ids ────────────────────────────────

\* Ids a provider may go by: those of the two families and that of a proxy
ProviderIDs == <<"anthropic", "openai", "my-proxy">>

\* The list with its i-th provider renamed to the (i + shift)-th id, cyclically
Renamed(providers, shift) ==
    [i \in DOMAIN providers |->
        [providers[i] EXCEPT !.id = ProviderIDs[((i + shift) % Len(ProviderIDs)) + 1]]]

\* C21: a model's family is determined by its api.npm alone: provider lists
\* that differ only in the ids of their providers yield the same ResolutionMap,
\* so a provider of any id whose models carry a supported identifier counts
\* for that family.
C21_FamilyByNpmOnly ==
    Scanned =>
        \A shift \in {1, 2} :
            resolveFromProviders(Renamed(args.providers, shift)) = ret

\* Two providers, the first with a key and an openai model: the map has an
\* entry for openai and none for anthropic, also when the first provider goes
\* by the id "anthropic".
C21_Witness ==
    /\ Scanned
    /\ Len(args.providers) >= 2
    /\ args.providers[1].key # Undefined
    /\ OfFamily(args.providers[1], "openai")
    /\ DOMAIN ret = {"openai"}
    /\ Renamed(args.providers, 2)[1].id = "anthropic"
    /\ DOMAIN resolveFromProviders(Renamed(args.providers, 2)) = {"openai"}

\* ── detectActiveProviderType on its own ──────────────────────────────────

\* Models of the directory: two ids, each under a supported or another api.npm
DirectoryModels ==
    {[api |-> [npm |-> npm], id |-> id, options |-> [websearch |-> JsUndefined]] :
        npm \in {ANTHROPIC_NPM_PACKAGE, OPENAI_NPM_PACKAGE, "@ai-sdk/google"},
        id \in {"m1", "m2"}}

DirectoryModelLists ==
    {<<>>} \cup {<<a>> : a \in DirectoryModels}
           \cup {<<a, b>> : a \in DirectoryModels, b \in DirectoryModels}

DirectoryProvider(id, models) ==
    [id |-> id, key |-> Undefined, models |-> models,
     options |-> [apiKey |-> JsUndefined, baseURL |-> JsUndefined]]

\* The active model of a session, if any, with the provider it was chosen from
DetectActives == {Missing} \cup [modelID : {"m1", "m2"}, providerID : {"p1", "p2"}]

InitDetect ==
    /\ \E active \in DetectActives :
          \/ args = [active |-> active, providers |-> <<>>]
          \/ \E first \in DirectoryModelLists :
                args = [active |-> active,
                        providers |-> <<DirectoryProvider("p1", first)>>]
          \/ \E first \in DirectoryModelLists, second \in DirectoryModelLists :
                args = [active |-> active,
                        providers |-> <<DirectoryProvider("p1", first),
                                        DirectoryProvider("p2", second)>>]
    /\ ret = NotCalled
    /\ PluginIdle

ApplyDetect ==
    /\ ret = NotCalled
    /\ ret' = [value |-> detectActiveProviderType(args.active, args.providers)]
    /\ UNCHANGED <<args, pluginVars>>

NextDetect == ApplyDetect

SpecDetect == InitDetect /\ [][NextDetect]_vars

SupportedNpm == {ANTHROPIC_NPM_PACKAGE, OPENAI_NPM_PACKAGE}

FamilyOfNpm(npm) == IF npm = ANTHROPIC_NPM_PACKAGE THEN "anthropic" ELSE "openai"

\* The positions, in provider order then model order, of the models with the
\* id modelID and a supported api.npm
SupportedMatches(providers, modelID) ==
    LET models == ModelsInOrder(providers)
    IN  {i \in DOMAIN models : models[i].id = modelID /\ models[i].api.npm \in SupportedNpm}

\* C22: the active model's family is that of the first model of the cached
\* provider list, in provider order then model order, that has the active
\* model's id and a supported api.npm; it is null when there is no active model
\* or no such model; and it is the same whatever the active model's providerID.
C22_ActiveFamily ==
    ret # NotCalled =>
        IF args.active = Missing THEN ret.value = NoType
        ELSE LET matches == SupportedMatches(args.providers, args.active.modelID)
                 models == ModelsInOrder(args.providers)
             IN  /\ matches = {} => ret.value = NoType
                 /\ matches # {} =>
                       ret.value = FamilyOfNpm(models[FirstOf(matches)].api.npm)
                 /\ \A providerID \in {"p1", "p2"} :
                       detectActiveProviderType(
                           [args.active EXCEPT !.providerID = providerID],
                           args.providers) = ret.value

\* The active model m1 was chosen from provider p2, where it is an anthropic
\* model; provider p1 lists m1 first under an unsupported api.npm and then as an
\* openai model: the family is openai.
C22_Witness ==
    /\ ret # NotCalled
    /\ args.active = [modelID |-> "m1", providerID |-> "p2"]
    /\ Len(args.providers) = 2
    /\ Len(args.providers[1].models) = 2
    /\ args.providers[1].models[1].id = "m1"
    /\ args.providers[1].models[1].api.npm = "@ai-sdk/google"
    /\ args.providers[1].models[2].id = "m1"
    /\ args.providers[1].models[2].api.npm = OPENAI_NPM_PACKAGE
    /\ Len(args.providers[2].models) >= 1
    /\ args.providers[2].models[1].id = "m1"
    /\ args.providers[2].models[1].api.npm = ANTHROPIC_NPM_PACKAGE
    /\ ret.value = "openai"

\* ── Response processing: order ───────────────────────────────────────────

KindOf(segment) == IF IsArray(segment) THEN "hits" ELSE "text"

Kinds(segments) == [i \in DOMAIN segments |-> KindOf(segments[i])]

\* The kinds of the segments of the raw response, in the order they appear in
\* it: a content block of an Anthropic response is a segment; an output_text
\* part of an OpenAI response is its text and then the URLs its annotations cite
RawKinds ==
    IF args.family = "anthropic"
    THEN Flatten([i \in DOMAIN args.content |->
                     LET block == args.content[i]
                     IN  IF block.type = "text"
                         THEN IF trim(block.text) # <<>> THEN <<"text">> ELSE <<>>
                         ELSE IF block.type = "web_search_tool_result"
                         THEN IF IsArray(block.content) THEN <<"hits">> ELSE <<"text">>
                         ELSE <<>>])
    ELSE LET messages == SelectSeq(args.items, LAMBDA item : item.type = "message")
             parts == SelectSeq(Flatten([i \in DOMAIN messages |-> messages[i].content]),
                                LAMBDA part : part.type = "output_text")
         IN  Flatten([i \in DOMAIN parts |->
                         (IF parts[i].text # <<>> THEN <<"text">> ELSE <<>>)
                         \o (IF SelectSeq(parts[i].annotations, IsURLCitation) # <<>>
                             THEN <<"hits">> ELSE <<>>)])

\* C23 (as stated): the results of either family's executor list text segments
\* and hit-lists in the relative order of the raw segments they come from: an
\* Anthropic result per block, in block order; an OpenAI segment before another
\* only if every raw segment of its kind precedes every raw segment of the
\* other's kind.
C23_OrderPreserved ==
    ret # NotCalled =>
        IF args.family = "anthropic"
        THEN Kinds(ret.results) = RawKinds
        ELSE \A i, j \in DOMAIN ret.results :
                i < j =>
                    \A p, q \in DOMAIN RawKinds :
                        /\ RawKinds[p] = KindOf(ret.results[i])
                        /\ RawKinds[q] = KindOf(ret.results[j])
                        => p < q

FirstIndexOf(hits, url) ==
    CHOOSE k \in DOMAIN hits :
        hits[k].url = url /\ \A earlier \in 1..(k - 1) : hits[earlier].url # url

\* C23 (amended): the Anthropic executor lists the segment of every content
\* block that yields one, in block order; the OpenAI executor lists the whole
\* output text first, when it is not empty, and then one hit-list of all cited
\* URLs in the order of their first citation, whatever the order of text and
\* citations in the raw output.
C23_OrderByFamily ==
    ret # NotCalled =>
        IF args.family = "anthropic"
        THEN ret.results =
                 SelectSeq([i \in DOMAIN args.content |-> processBlock(args.content[i])],
                           LAMBDA segment : segment # Null)
        ELSE /\ ret.results =
                   (IF args.outputText # <<>> THEN <<JsString(args.outputText)>> ELSE <<>>)
                   \o (IF RawHits # <<>> THEN <<JsArray(ResponseHits)>> ELSE <<>>)
             /\ \A i, j \in DOMAIN ResponseHits :
                   i < j => FirstIndexOf(RawHits, ResponseHits[i].url)
                            < FirstIndexOf(RawHits, ResponseHits[j].url)

\* An OpenAI response of two messages, each a text that cites URLs, has been
\* normalized to the joined text followed by one hit-list.
C23_Witness ==
    /\ ret # NotCalled
    /\ args.family = "openai"
    /\ RawKinds = <<"text", "hits", "text", "hits">>
    /\ Len(args.items) = 2
    /\ Kinds(ret.results) = <<"text", "hits">>
    /\ ret.results[1] = JsString(<<"a", "a">>)

\* ── Response processing: search errors ───────────────────────────────────

IsErrorBlock(block) ==
    block.type = "web_search_tool_result" /\ ~IsArray(block.content)

\* The content blocks that yield a segment, by position
Yielding(content) ==
    {i \in DOMAIN content :
        \/ content[i].type = "web_search_tool_result"
        \/ content[i].type = "text" /\ trim(content[i].text) # <<>>}

\* C24: a search error inside an Anthropic response becomes a text segment at
\* its block's position among the results, the segments of the other blocks of
\* the response are all there, and the processing returns its response.
C24_SearchErrorIsText ==
    ret # NotCalled /\ args.family = "anthropic" =>
        LET content == args.content
            yielding == Yielding(content)
            position(i) == Cardinality({k \in yielding : k <= i})
        IN  /\ ret # Thrown
            /\ ret.query = args.query
            /\ Len(ret.results) = Cardinality(yielding)
            /\ \A i \in yielding :
                  ret.results[position(i)] =
                      IF IsErrorBlock(content[i])
                      THEN JsString(<<"Web search error: ", content[i].content.error_code>>)
                      ELSE IF content[i].type = "text"
                      THEN JsString(trim(content[i].text))
                      ELSE JsArray(TitleAndURL(content[i].content.items))

\* A response of a text, a search error and a result block with two hits has
\* been normalized to three segments, the second the text of the error.
C24_Witness ==
    /\ ret # NotCalled
    /\ args.family = "anthropic"
    /\ Len(args.content) = 3
    /\ args.content[1].type = "text"
    /\ IsErrorBlock(args.content[2])
    /\ args.content[3].type = "web_search_tool_result"
    /\ IsArray(args.content[3].content)
    /\ Len(ret.results) = 3
    /\ ret.results[2] = JsString(<<"Web search error: ", "max_uses_exceeded">>)
    /\ IsArray(ret.results[3])
    /\ Len(ret.results[3].items) = 2

\* ── dispatchErrorMessage on its own ──────────────────────────────────────

JsNull == [t |-> "null"]

ErrorMessages == {"boom", "overloaded", "true", "null", "undefined"}

\* What the upstream call of an executor may throw
ThrownErrors ==
    [class : {"APIError"}, message : ErrorMessages, status : {"429", "500", "529"}]
    \cup [class : {"Error"}, message : ErrorMessages]
    \cup [class : {"other"},
          value : {JsString("boom"), JsString("overloaded"), JsString(""),
                   JsBoolean(TRUE), JsBoolean(FALSE), JsNull, JsUndefined}]

InitError ==
    /\ \E providerType \in ProviderTypeSet, error \in ThrownErrors :
          args = [providerType |-> providerType, error |-> error]
    /\ ret = NotCalled
    /\ PluginIdle

ApplyError ==
    /\ ret = NotCalled
    /\ ret' = [value |-> dispatchErrorMessage(args.providerType, args.error)]
    /\ UNCHANGED <<args, pluginVars>>

NextError == ApplyError

SpecError == InitError /\ [][NextError]_vars

\* The rendering the taxonomy gives an error of the family
Rendering(providerType, error) ==
    IF error.class = "APIError"
    THEN IF providerType = "anthropic"
         THEN <<"Anthropic API error: ", error.message, " (status: ", error.status, ")">>
         ELSE <<"OpenAI API error: ", error.message, " (status: ", error.status, ")">>
    ELSE IF error.class = "Error"
    THEN <<"Error performing web search: ", error.message>>
    ELSE <<"Error performing web search: ", String(error.value)>>

\* No error of the classes named renders, for the same family, to the string
\* returned
NotRenderedBy(classes) ==
    \A other \in ThrownErrors :
        other.class \in classes => Rendering(args.providerType, other) # ret.value

\* C25 (as stated): a failure of the upstream call is rendered by the resolved
\* family's formatter, an API error with the family's name, its message and
\* status, an Error with its message, another thrown value stringified, and
\* the renderings of the three classes are mutually distinguishable.
C25_ErrorTaxonomy ==
    ret # NotCalled =>
        /\ ret.value = Rendering(args.providerType, args.error)
        /\ NotRenderedBy({"APIError", "Error", "other"} \ {args.error.class})

\* C25 (amended): the renderings are as stated, and that of an API error is
\* distinguishable from those of the two other classes; an Error and another
\* thrown value share the prefix "Error performing web search: " and render to
\* the same string when the message of the one is the string of the other.
C25_APIErrorsDistinct ==
    ret # NotCalled =>
        /\ ret.value = Rendering(args.providerType, args.error)
        /\ args.error.class = "APIError" => NotRenderedBy({"Error", "other"})
        /\ args.error.class # "APIError" =>
              /\ NotRenderedBy({"APIError"})
              /\ ret.value[1] = "Error performing web search: "

\* The openai family's call threw an APIError with status 529, rendered with
\* the name OpenAI, the message and the status.
C25_Witness ==
    /\ ret # NotCalled
    /\ args.providerType = "openai"
    /\ args.error = [class |-> "APIError", message |-> "overloaded", status |-> "529"]
    /\ ret.value = <<"OpenAI API error: ", "overloaded", " (status: ", "529", ")">>

\* ── Scan and resolution together ─────────────────────────────────────────

\* A provider of the directory: its key absent, empty or set, its
\* options.apiKey absent, empty or set, and one model
PipelineProviders(i) ==
    {[id |-> ProviderIDs[i],
      key |-> key,
      models |-> <<ModelOf(shape, i)>>,
      options |-> [apiKey |-> apiKey,
                   baseURL |-> JsString(<<HostAt[i], "/", "v", "1">>)]] :
        key \in {Undefined, "", KeyAt[i]},
        apiKey \in {JsUndefined, JsString(""), JsString(OptionKeyAt[i])},
        shape \in [npm : {ANTHROPIC_NPM_PACKAGE, OPENAI_NPM_PACKAGE},
                   websearch : {JsString(WEBSEARCH_ALWAYS), JsString(WEBSEARCH_AUTO),
                                JsUndefined}]}

\* The session's active model: none, a model of the directory, or another
PipelineActives == {Missing} \cup [modelID : {"m1", "m2", "m3"}, providerID : {"p1"}]

InitPipeline ==
    /\ \E first \in PipelineProviders(1), second \in PipelineProviders(2),
          active \in PipelineActives :
          args = [providers |-> <<first, second>>, active |-> active]
    /\ ret = NotCalled
    /\ PluginIdle

\* What execute computes from the scanned state and the active model
ApplyPipeline ==
    /\ ret = NotCalled
    /\ ret' = resolveSearchProvider(
                  resolveFromProviders(args.providers), args.active,
                  detectActiveProviderType(args.active, args.providers))
    /\ UNCHANGED <<args, pluginVars>>

NextPipeline == ApplyPipeline

SpecPipeline == InitPipeline /\ [][NextPipeline]_vars

\* C26: a ResolvedProvider has a providerType that is a family of the
\* ResolutionMap, an apiKey that is not empty and is the one of that family's
\* credentials, and a model id that is the family's lockedModel, the active
\* model id, or the family's fallbackModel.
C26_ResolvedProviderSound ==
    ret # NotCalled /\ ret # Null =>
        LET resolutions == resolveFromProviders(args.providers)
            pt == ret.providerType
        IN  /\ pt \in DOMAIN resolutions
            /\ ret.config.apiKey \notin {"", Undefined}
            /\ ret.config.apiKey = resolutions[pt].credentials.apiKey
            /\ ret.config.baseURL = resolutions[pt].credentials.baseURL
            /\ ret.config.model # Undefined
            /\ \/ ret.config.model = resolutions[pt].lockedModel
               \/ args.active # Missing /\ ret.config.model = args.active.modelID
               \/ ret.config.model = resolutions[pt].fallbackModel

\* The first provider has an empty key and an options key, the second a key;
\* both hold models of one family, and the active model is resolved with the
\* second provider's key.
C26_Witness ==
    /\ ret # NotCalled /\ ret # Null
    /\ args.providers[1].key = ""
    /\ args.providers[1].options.apiKey = JsString("opt1")
    /\ args.providers[1].models[1].api.npm = args.providers[2].models[1].api.npm
    /\ args.active # Missing
    /\ ret.config.model = args.active.modelID
    /\ ret.config.apiKey = "key2"

\* ── Tagged models and the provider of the credentials ────────────────────

\* The provider, by position, that holds the model of this id; the ids of a
\* drawn list are distinct
HolderOf(providers, modelID) ==
    {i \in DOMAIN providers :
        \E j \in DOMAIN providers[i].models : providers[i].models[j].id = modelID}

\* C27: in the ResolutionMap returned by resolveFromProviders, a family's
\* lockedModel and fallbackModel are models of the provider from which the
\* family's credentials were extracted.
C27_TaggedModelOfCredentialProvider ==
    Scanned =>
        \A pt \in DOMAIN ret :
            LET source == FirstOf(Credentialed(args.providers, pt))
            IN  /\ ret[pt].lockedModel # Undefined =>
                       HolderOf(args.providers, ret[pt].lockedModel) = {source}
                /\ ret[pt].fallbackModel # Undefined =>
                       HolderOf(args.providers, ret[pt].fallbackModel) = {source}

\* ── A model change while a search is in flight ───────────────────────────

\* The errors an upstream call throws
UpstreamErrors == {outcome \in UpstreamOutcomes : outcome.class # "response"}

\* C28: the family and the model of a search are fixed when its resolution
\* runs: a step that changes the session's active model while the upstream call
\* is in flight changes neither the resolved model nor the resolved family, and
\* when the call fails its error is formatted by the formatter of the family
\* resolved then; a search resolved afterwards is resolved with the model the
\* session has at that later step.
C28_ResolutionFixed ==
    [][/\ \A c \in DOMAIN calls :
             calls[c].pc = "awaitSearch" =>
                 /\ calls'[c].resolved = calls[c].resolved
                 /\ calls'[c].upstream = calls[c].upstream
                 /\ activeModels' # activeModels => calls'[c] = calls[c]
                 /\ calls'[c].pc = "returned" /\ calls'[c].result # <<"{\"query\":", "...", "}">> =>
                        \E outcome \in UpstreamErrors :
                            calls'[c].result =
                                dispatchErrorMessage(calls[c].resolved.providerType, outcome)
       /\ \A c \in DOMAIN calls' :
             Resolves(c) /\ calls'[c].resolved # Null =>
                 LET active == ActiveModelOf(calls'[c].sessionID)
                 IN  calls'[c].resolved =
                         resolveSearchProvider(state'.resolutions, active,
                             detectActiveProviderType(active, state'.list))]_vars

\* A search resolved to the session's anthropic model m1 is still in flight
\* with that model and family, while the session's model is by now the openai
\* model m2: a second search of the session was resolved to it and its failure
\* was formatted by the openai formatter.
C28_Witness ==
    \E c, d \in DOMAIN calls :
        /\ c < d
        /\ calls[c].sessionID = calls[d].sessionID
        /\ calls[c].pc = "awaitSearch"
        /\ calls[c].resolved.providerType = "anthropic"
        /\ calls[c].resolved.config.model = "m1"
        /\ ActiveModelOf(calls[c].sessionID) # Missing
        /\ ActiveModelOf(calls[c].sessionID).modelID = "m2"
        /\ calls[d].pc = "returned"
        /\ calls[d].resolved # Null
        /\ calls[d].resolved.providerType = "openai"
        /\ calls[d].resolved.config.model = "m2"
        /\ calls[d].result \in {formatOpenAIError(outcome) : outcome \in UpstreamErrors}

\* ── A directory query that resolves without data ─────────────────────────

\* The state resolveProviderState returns when the answer has no data
EmptyState == resolveProviderState([kind |-> "nodata"])

\* C29: once a directory query has resolved without data and the empty list
\* and empty ResolutionMap are stored, they stay stored, the directory is not
\* queried again, and every search that starts or goes on from then returns
\* the no-provider error.
C29_EmptyStateCached ==
    [][state = EmptyState =>
          /\ state' = EmptyState
          /\ queries' = queries
          /\ \A c \in DOMAIN calls' :
                Resolves(c) =>
                    /\ calls'[c].pc = "returned"
                    /\ calls'[c].result = formatNoProviderError]_vars

\* ── The values of the websearch option ───────────────────────────────────

\* What a model's options.websearch may hold: nothing, the two tags, strings
\* that differ from them in case or by a space, the empty string, booleans, null
WebsearchOptions ==
    {JsUndefined, JsNull, JsBoolean(TRUE), JsBoolean(FALSE),
     JsString(WEBSEARCH_ALWAYS), JsString(WEBSEARCH_AUTO),
     JsString("Always"), JsString("AUTO"), JsString("always "), JsString("")}

OptionModelShapes ==
    [npm : {ANTHROPIC_NPM_PACKAGE, OPENAI_NPM_PACKAGE}, websearch : WebsearchOptions]

\* One provider, with or without a key, and its two models
InitOption ==
    /\ \E pshape \in {"none", "key"}, first \in OptionModelShapes, second \in OptionModelShapes :
          args = [providers |-> <<ProviderOf(pshape, 1, <<ModelOf(first, 1), ModelOf(second, 2)>>)>>]
    /\ ret = NotCalled
    /\ PluginIdle

ApplyOption ==
    /\ ret = NotCalled
    /\ ret' = resolveFromProviders(args.providers)
    /\ UNCHANGED <<args, pluginVars>>

NextOption == ApplyOption

SpecOption == InitOption /\ [][NextOption]_vars

ExactTags == {JsString(WEBSEARCH_ALWAYS), JsString(WEBSEARCH_AUTO)}

====
